---- MODULE Spec2Model ----
(***************************************************************************)
(* The object location directory of src/ray/object_manager/                *)
(* object_directory.cc: the merge of a batch of location updates into one  *)
(* object's listener state (UpdateObjectLocations), the propagation of a   *)
(* node removal to every tracked object (HandleNodeRemoved), the ingestion *)
(* path that drives the merge and the subscriber callbacks, and the        *)
(* resolution of remote connections (LookupAllRemoteConnections).          *)
(***************************************************************************)
EXTENDS Integers, Sequences, FiniteSets, Bags, TLC

\* ------------------------------------------------------------------ bounds
\* Largest object size an update carries (0 means "no size").
MaxSize == 1
\* Longest batch of location updates delivered in one notification.
MaxBatch == 2

\* Opaque identities: nodes, objects, subscriber callbacks, spill URLs.
Nodes == {"A", "B"}
Objects == {"X", "Y"}
Callbacks == {"s1", "s2"}
UrlChars == {"u", "v"}

\* The callbacks registered for each object (subscription bookkeeping is taken
\* as given: the directory is studied once its subscriptions exist).
Registered(object_id) == IF object_id = "X" THEN {"s1", "s2"} ELSE {"s1"}

\* ------------------------------------------------------------ value types
\* NodeID::Nil(), the value of a default-constructed NodeID.
Nil == "nil"

\* A binary id on the wire is a byte string: empty, or the bytes of one id.
Binaries == {<<>>} \cup {<<n>> : n \in Nodes}

\* NodeID::FromBinary: the empty string gives Nil, else the id the bytes hold.
FromBinary(binary) == IF Len(binary) = 0 THEN Nil ELSE binary[1]

\* A spill URL is a string: empty, or one of the non-empty URLs.
Urls == {<<>>} \cup {<<c>> : c \in UrlChars}

\* std::string::empty()
empty(s) == Len(s) = 0

\* rpc::ObjectLocationChange: node_id, is_add, spilled_url, spilled_node_id, size.
\* An addition carries the object's size, or none.
AddEvents ==
    [node_id : Binaries \ {<<>>}, is_add : {TRUE}, spilled_url : {<<>>},
     spilled_node_id : {<<>>}, size : 0..MaxSize]

\* A deletion carries no size, or the largest one.
RemoveEvents ==
    [node_id : Binaries \ {<<>>}, is_add : {FALSE}, spilled_url : {<<>>},
     spilled_node_id : {<<>>}, size : {0, MaxSize}]

\* A spill names no node_id; it carries a URL and the node that spilled, and
\* no size or the largest one.
SpilledEvents ==
    [node_id : {<<>>}, is_add : {FALSE}, spilled_url : Urls \ {<<>>},
     spilled_node_id : Binaries \ {<<>>}, size : {0, MaxSize}]

\* The malformed update: neither a node_id nor a spilled URL; it may still name
\* a spilling node.
MalformedEvents ==
    [node_id : {<<>>}, is_add : {FALSE}, spilled_url : {<<>>},
     spilled_node_id : Binaries, size : {0}]

ObjectLocationChange ==
    AddEvents \cup RemoveEvents \cup SpilledEvents \cup MalformedEvents

\* The updates that batches of several are made of: in these a spill carries no
\* size and a malformed update names no spilling node.
BatchEvents ==
    {update \in ObjectLocationChange :
        empty(update.node_id) =>
            /\ update.size = 0
            /\ empty(update.spilled_url) => empty(update.spilled_node_id)}

\* std::vector<rpc::ObjectLocationChange> of at most MaxBatch updates.
Batches == UNION {[1..k -> BatchEvents] : k \in 0..MaxBatch}

\* The notifications that carry at most one update.
Notifications == {<<>>} \cup {<<update>> : update \in ObjectLocationChange}

\* The local node, and the nodes the control plane may know.
SelfId == "L"
KnownNodes == Nodes \cup {SelfId}

\* static_cast<uint16_t>: the port is kept modulo 2^16.
PortModulus == 65536

\* rpc::GcsNodeInfo: node_id, node_manager_address, object_manager_port.
Addresses == {<<>>, <<"h">>}
Ports == {0, 1, PortModulus}
GcsNodeInfo ==
    [node_id : {<<n>> : n \in KnownNodes}, node_manager_address : Addresses,
     object_manager_port : Ports]

\* LocationListenerState of one object: default-constructed, with the
\* callbacks registered for it.
ListenerState(object_id) ==
    [current_object_locations |-> {}, spilled_url |-> <<>>,
     spilled_node_id |-> Nil, object_size |-> 0,
     callbacks |-> Registered(object_id)]

\* ------------------------------------------------------------------ state
VARIABLES
    listeners,   \* listeners_: object id -> LocationListenerState
    removed,     \* the nodes gcs_client->Nodes().IsRemoved reports as removed
    crashed,     \* TRUE once a RAY_CHECK has failed: the process is gone
    last,        \* the handler that has just run: inputs, state before, results
    handled,     \* the nodes whose removal was handled while reported removed
    node_map     \* gcs_client->Nodes().GetAll(): node id -> node info

vars == <<listeners, removed, crashed, last, handled, node_map>>

\* gcs_client->Nodes().IsRemoved(node_id)
IsRemoved(oracle, node_id) == node_id \in oracle

\* ------------------------------------------------------- UpdateObjectLocations
\* One iteration of the loop over location_updates (lines 42-71): the listener
\* state after the update, whether it counted as a change, and whether the
\* RAY_CHECK on the spilled URL failed.
\* The size assigned from every update, also from one that carries none.
SetSizeAlways(update, st) == [st EXCEPT !.object_size = update.size]

\* The size taken from additions only.
SetSizeFromAdd(update, st) ==
    IF update.size > 0 /\ ~empty(update.node_id) /\ update.is_add
    THEN [st EXCEPT !.object_size = update.size]
    ELSE st

SetSize(update, st) ==
    IF update.size > 0 THEN [st EXCEPT !.object_size = update.size] ELSE st

\* The node update whose deletions are ignored.
ApplyNodeInsertOnly(update, st) ==
    LET node_id == FromBinary(update.node_id)
        node_ids == st.current_object_locations
    IN  IF update.is_add /\ node_id \notin node_ids
        THEN [st |-> [st EXCEPT !.current_object_locations = node_ids \cup {node_id}],
              isUpdated |-> TRUE, aborted |-> FALSE]
        ELSE [st |-> st, isUpdated |-> FALSE, aborted |-> FALSE]

ApplyNodeUpdate(update, st) ==
    LET node_id == FromBinary(update.node_id)
        node_ids == st.current_object_locations
    IN  IF update.is_add /\ node_id \notin node_ids
        THEN [st |-> [st EXCEPT !.current_object_locations = node_ids \cup {node_id}],
              isUpdated |-> TRUE, aborted |-> FALSE]
        ELSE IF ~update.is_add /\ node_id \in node_ids
        THEN [st |-> [st EXCEPT !.current_object_locations = node_ids \ {node_id}],
              isUpdated |-> TRUE, aborted |-> FALSE]
        ELSE [st |-> st, isUpdated |-> FALSE, aborted |-> FALSE]

\* The spill recorded without the RAY_CHECK on its URL.
ApplySpilledUnchecked(update, st) ==
    IF update.spilled_url # st.spilled_url
    THEN [st |-> [st EXCEPT !.spilled_url = update.spilled_url,
                            !.spilled_node_id = FromBinary(update.spilled_node_id)],
          isUpdated |-> TRUE, aborted |-> FALSE]
    ELSE [st |-> st, isUpdated |-> FALSE, aborted |-> FALSE]

\* The spill that also counts a different spilling node as a change.
ApplySpilledNodeCompared(update, st) ==
    IF empty(update.spilled_url)
    THEN [st |-> st, isUpdated |-> FALSE, aborted |-> TRUE]
    ELSE IF \/ update.spilled_url # st.spilled_url
            \/ FromBinary(update.spilled_node_id) # st.spilled_node_id
    THEN [st |-> [st EXCEPT !.spilled_url = update.spilled_url,
                            !.spilled_node_id = FromBinary(update.spilled_node_id)],
          isUpdated |-> TRUE, aborted |-> FALSE]
    ELSE [st |-> st, isUpdated |-> FALSE, aborted |-> FALSE]

\* The spill recorded before the RAY_CHECK on its URL is made.
ApplySpilledCheckedLate(update, st) ==
    LET r == ApplySpilledUnchecked(update, st)
    IN  IF empty(update.spilled_url)
        THEN [st |-> r.st, isUpdated |-> FALSE, aborted |-> TRUE]
        ELSE r

ApplySpilledUpdate(update, st) ==
    IF empty(update.spilled_url)
    THEN [st |-> st, isUpdated |-> FALSE, aborted |-> TRUE]
    ELSE IF update.spilled_url # st.spilled_url
    THEN [st |-> [st EXCEPT !.spilled_url = update.spilled_url,
                            !.spilled_node_id = FromBinary(update.spilled_node_id)],
          isUpdated |-> TRUE, aborted |-> FALSE]
    ELSE [st |-> st, isUpdated |-> FALSE, aborted |-> FALSE]

ApplyUpdate(update, st) ==
    LET sized == SetSize(update, st)
    IN  IF ~empty(update.node_id)
        THEN ApplyNodeUpdate(update, sized)
        ELSE ApplySpilledUpdate(update, sized)

\* The loop that walks location_updates from its last update to its first.
RECURSIVE ApplyUpdatesReversed(_, _, _, _)
ApplyUpdatesReversed(location_updates, i, st, isUpdated) ==
    IF i > Len(location_updates)
    THEN [st |-> st, isUpdated |-> isUpdated, aborted |-> FALSE]
    ELSE LET r == ApplyUpdate(location_updates[Len(location_updates) + 1 - i], st)
         IN  IF r.aborted
             THEN [st |-> r.st, isUpdated |-> isUpdated, aborted |-> TRUE]
             ELSE ApplyUpdatesReversed(location_updates, i + 1, r.st,
                                       isUpdated \/ r.isUpdated)

\* The loop of lines 42-71 over location_updates[i..], stopping at a failed check.
RECURSIVE ApplyUpdates(_, _, _, _)
ApplyUpdates(location_updates, i, st, isUpdated) ==
    IF i > Len(location_updates)
    THEN [st |-> st, isUpdated |-> isUpdated, aborted |-> FALSE]
    ELSE LET r == ApplyUpdate(location_updates[i], st)
         IN  IF r.aborted
             THEN [st |-> r.st, isUpdated |-> isUpdated, aborted |-> TRUE]
             ELSE ApplyUpdates(location_updates, i + 1, r.st, isUpdated \/ r.isUpdated)

\* The filter that erases nothing.
FilterNoNodes(oracle, node_ids) == node_ids

\* Lines 72-79: filter out the removed nodes from the object locations.
FilterRemovedNodes(oracle, node_ids) ==
    {node_id \in node_ids : ~IsRemoved(oracle, node_id)}

\* The merge without its filter pass: only explicit removals take a node out.
UpdateWithoutFilter(location_updates, oracle, st) ==
    ApplyUpdates(location_updates, 1, st, FALSE)

\* The merge that forgets the spill and the size when its filter erases a node.
UpdateForgettingSpill(location_updates, oracle, st) ==
    LET r == ApplyUpdates(location_updates, 1, st, FALSE)
        kept == FilterRemovedNodes(oracle, r.st.current_object_locations)
    IN  IF r.aborted
        THEN r
        ELSE IF kept = r.st.current_object_locations
        THEN r
        ELSE [st |-> [r.st EXCEPT !.current_object_locations = kept,
                                  !.spilled_url = <<>>,
                                  !.spilled_node_id = Nil,
                                  !.object_size = 0],
              isUpdated |-> r.isUpdated, aborted |-> FALSE]

\* UpdateObjectLocations (lines 34-82) on one listener state.
UpdateObjectLocations(location_updates, oracle, st) ==
    LET r == ApplyUpdates(location_updates, 1, st, FALSE)
    IN  IF r.aborted
        THEN r
        ELSE [st |-> [r.st EXCEPT !.current_object_locations =
                                      FilterRemovedNodes(oracle, @)],
              isUpdated |-> r.isUpdated, aborted |-> FALSE]

\* ------------------------------------------------------------ callbacks
NoCalls == EmptyBag

\* One invocation of a subscriber callback: its arguments, and the locations
\* of every tracked object at the moment it runs.
Call(object_id, callback, st, dir) ==
    [object_id |-> object_id, callback |-> callback,
     locations |-> st.current_object_locations,
     spilled_url |-> st.spilled_url,
     spilled_node_id |-> st.spilled_node_id,
     object_size |-> st.object_size,
     dir |-> [o \in DOMAIN dir |-> dir[o].current_object_locations]]

\* The fan-out that stops after the first callback.
InvokeFirstCallback(object_id, dir) ==
    IF dir[object_id].callbacks = {} THEN EmptyBag
    ELSE SetToBag({Call(object_id, CHOOSE callback \in dir[object_id].callbacks : TRUE,
                        dir[object_id], dir)})

\* for (const auto &callback_pair : listener.second.callbacks): one call each.
InvokeCallbacks(object_id, dir) ==
    SetToBag({Call(object_id, callback, dir[object_id], dir) :
                  callback \in dir[object_id].callbacks})


\* The record kept of the handler that has just run.
Record(op, object_id, node_id, location_updates, isUpdated, calls) ==
    [op |-> op, object_id |-> object_id, node_id |-> node_id,
     location_updates |-> location_updates, before |-> listeners,
     isUpdated |-> isUpdated, calls |-> calls]

\* No handler has just run: the event loop is idle.
Idle ==
    [op |-> "idle", object_id |-> Nil, node_id |-> Nil, location_updates |-> <<>>,
     before |-> <<>>, isUpdated |-> FALSE, calls |-> NoCalls]

\* ------------------------------------------------------------------ actions
InitOf(objects) ==
    /\ listeners = [o \in objects |-> ListenerState(o)]
    /\ removed = {}
    /\ crashed = FALSE
    /\ last = Idle
    /\ handled = {}
    /\ node_map = <<>>

\* The event loop is free to take the next task: the process is alive and no
\* handler is running.
Ready == ~crashed /\ last.op = "idle"

\* The handler returns to the event loop, which takes the next task.
ReturnToLoop ==
    /\ ~crashed
    /\ last.op # "idle"
    /\ last' = Idle
    /\ UNCHANGED <<listeners, removed, crashed, handled, node_map>>

\* The control plane declares a node removed: from now on IsRemoved(node_id).
NodeDeclaredRemoved(node_id) ==
    /\ Ready
    /\ node_id \notin removed
    /\ removed' = removed \cup {node_id}
    /\ last' = Record("declared", Nil, node_id, <<>>, FALSE, NoCalls)
    /\ UNCHANGED <<listeners, crashed, handled, node_map>>

\* on_location_update(object_id, events): merge, then notify if changed.
OnLocationUpdate(object_id, location_updates) ==
    /\ Ready
    /\ LET r == UpdateObjectLocations(location_updates, removed, listeners[object_id])
           dir == [listeners EXCEPT ![object_id] = r.st]
       IN  /\ listeners' = dir
           /\ crashed' = r.aborted
           /\ last' = Record(IF r.aborted THEN "abort" ELSE "update", object_id, Nil,
                             location_updates, r.isUpdated,
                             IF r.isUpdated /\ ~r.aborted
                             THEN InvokeCallbacks(object_id, dir) ELSE NoCalls)
    /\ UNCHANGED <<removed, handled, node_map>>

\* The loop without the test of line 113: every object is merged and notified.
RECURSIVE VisitEveryListener(_, _, _, _, _)
VisitEveryListener(node_id, order, i, dir, calls) ==
    IF i > Len(order)
    THEN [listeners |-> dir, calls |-> calls]
    ELSE LET object_id == order[i]
             r == UpdateObjectLocations(<<>>, removed, dir[object_id])
             swept == [dir EXCEPT ![object_id] = r.st]
         IN  VisitEveryListener(node_id, order, i + 1, swept,
                                calls (+) InvokeCallbacks(object_id, swept))

\* The loop that calls an object's callbacks before it merges the empty batch.
RECURSIVE VisitNotifyThenSweep(_, _, _, _, _)
VisitNotifyThenSweep(node_id, order, i, dir, calls) ==
    IF i > Len(order)
    THEN [listeners |-> dir, calls |-> calls]
    ELSE LET object_id == order[i]
         IN  IF node_id \in dir[object_id].current_object_locations
             THEN LET r == UpdateObjectLocations(<<>>, removed, dir[object_id])
                      swept == [dir EXCEPT ![object_id] = r.st]
                  IN  VisitNotifyThenSweep(node_id, order, i + 1, swept,
                                           calls (+) InvokeCallbacks(object_id, dir))
             ELSE VisitNotifyThenSweep(node_id, order, i + 1, dir, calls)

\* The loop that merges the empty batch into every object, and calls the
\* callbacks of those that held the node.
RECURSIVE VisitAndSweepAll(_, _, _, _, _)
VisitAndSweepAll(node_id, order, i, dir, calls) ==
    IF i > Len(order)
    THEN [listeners |-> dir, calls |-> calls]
    ELSE LET object_id == order[i]
             r == UpdateObjectLocations(<<>>, removed, dir[object_id])
             swept == [dir EXCEPT ![object_id] = r.st]
         IN  VisitAndSweepAll(node_id, order, i + 1, swept,
                 IF node_id \in dir[object_id].current_object_locations
                 THEN calls (+) InvokeCallbacks(object_id, swept)
                 ELSE calls)

\* The loop of HandleNodeRemoved over listeners_ (lines 111-130), visiting the
\* objects in the sequence order[i..].
RECURSIVE VisitListeners(_, _, _, _, _)
VisitListeners(node_id, order, i, dir, calls) ==
    IF i > Len(order)
    THEN [listeners |-> dir, calls |-> calls]
    ELSE LET object_id == order[i]
         IN  IF node_id \in dir[object_id].current_object_locations
             THEN LET r == UpdateObjectLocations(<<>>, removed, dir[object_id])
                      swept == [dir EXCEPT ![object_id] = r.st]
                  IN  VisitListeners(node_id, order, i + 1, swept,
                                     calls (+) InvokeCallbacks(object_id, swept))
             ELSE VisitListeners(node_id, order, i + 1, dir, calls)

\* The orders in which an unordered_map with these keys may be iterated.
IterationOrders(objects) ==
    {order \in [1..Cardinality(objects) -> objects] :
        \A i, j \in DOMAIN order : order[i] = order[j] => i = j}

\* ObjectDirectory::HandleNodeRemoved(node_id)
HandleNodeRemoved(node_id, order) ==
    /\ Ready
    /\ LET r == VisitListeners(node_id, order, 1, listeners, NoCalls)
       IN  /\ listeners' = r.listeners
           /\ last' = Record("node_removed", Nil, node_id, <<>>, FALSE, r.calls)
    /\ handled' = IF IsRemoved(removed, node_id) THEN handled \cup {node_id} ELSE handled
    /\ UNCHANGED <<removed, crashed, node_map>>

\* --------------------------------------------------- re-entrant callbacks
\* A subscriber that registers while a fan-out runs, and an object that is
\* tracked only once somebody subscribes to it.
LateCallback == "s3"
LateObject == "Z"
Subscribers == Callbacks \cup {LateCallback}

\* What a callback does when it is invoked: nothing, or one call back into the
\* directory that removes a subscriber or adds one.
NoEffect == [kind |-> "none", object_id |-> Nil, callback |-> Nil]

Effects ==
    {NoEffect}
        \cup [kind : {"unsubscribe"}, object_id : {"X"}, callback : Callbacks]
        \cup [kind : {"subscribe"}, object_id : {"X", LateObject},
              callback : {LateCallback}]

\* What each subscriber's callback does; at most one of them calls back.
Behaviours ==
    {behaviour \in [Subscribers -> Effects] :
        \A c, d \in Subscribers :
            (behaviour[c] # NoEffect /\ behaviour[d] # NoEffect) => c = d}

\* What the build makes of an insertion into an unordered_map that is being
\* iterated (a rehash invalidates the iterator; otherwise the new element lies
\* before or after it), and of the use of an invalidated iterator.
Outcomes ==
    [insert : {"rehash", "before", "after"},
     ub : {"crash", "stop", "continue", "revisit"}]

\* The elements of a set in some sequence.
RECURSIVE SeqOf(_)
SeqOf(set) ==
    IF set = {} THEN <<>>
    ELSE LET x == CHOOSE x \in set : TRUE IN <<x>> \o SeqOf(set \ {x})

\* add_subscriber(object_id, callback): the object is tracked from now on.
AddSubscriber(dir, object_id, callback) ==
    IF object_id \in DOMAIN dir
    THEN [dir EXCEPT ![object_id].callbacks = @ \cup {callback}]
    ELSE [o \in DOMAIN dir \cup {object_id} |->
              IF o = object_id
              THEN [ListenerState(o) EXCEPT !.callbacks = {callback}]
              ELSE dir[o]]

\* remove_subscriber(object_id, callback)
RemoveSubscriber(dir, object_id, callback) ==
    IF object_id \in DOMAIN dir
    THEN [dir EXCEPT ![object_id].callbacks = @ \ {callback}]
    ELSE dir

\* The fan-out of lines 122-128 for one object: the callbacks in pending are
\* still to be visited by the iterator over listener.second.callbacks. Each
\* call may change the map that is being iterated.
RECURSIVE FanOut(_, _, _, _, _, _, _)
FanOut(object_id, pending, dir, calls, rehashed, behaviour, outcome) ==
    IF pending = <<>>
    THEN [listeners |-> dir, calls |-> calls, rehashed |-> rehashed, aborted |-> FALSE]
    ELSE LET callback == Head(pending)
             rest == Tail(pending)
             called == calls (+) SetToBag({Call(object_id, callback, dir[object_id], dir)})
             effect == behaviour[callback]
             \* the iterator is used after it has been invalidated
             Invalidated(after) ==
                 CASE outcome.ub = "crash" ->
                          [listeners |-> after, calls |-> called,
                           rehashed |-> rehashed, aborted |-> TRUE]
                   [] outcome.ub = "stop" ->
                          [listeners |-> after, calls |-> called,
                           rehashed |-> rehashed, aborted |-> FALSE]
                   [] outcome.ub = "continue" ->
                          FanOut(object_id, rest, after, called, rehashed,
                                 behaviour, outcome)
                   [] OTHER ->
                          FanOut(object_id, SeqOf(after[object_id].callbacks), after,
                                 called, rehashed, behaviour, outcome)
         IN  CASE effect.kind = "unsubscribe" ->
                      IF effect.callback \notin dir[effect.object_id].callbacks
                      THEN FanOut(object_id, rest, dir, called, rehashed,
                                  behaviour, outcome)
                      ELSE LET after == RemoveSubscriber(dir, effect.object_id,
                                                         effect.callback)
                           IN  IF effect.object_id # object_id
                               THEN FanOut(object_id, rest, after, called, rehashed,
                                           behaviour, outcome)
                               ELSE IF effect.callback = callback
                               THEN Invalidated(after)
                               ELSE FanOut(object_id,
                                           SelectSeq(rest, LAMBDA c : c # effect.callback),
                                           after, called, rehashed, behaviour, outcome)
               [] effect.kind = "subscribe" ->
                      IF /\ effect.object_id \in DOMAIN dir
                         /\ effect.callback \in dir[effect.object_id].callbacks
                      THEN FanOut(object_id, rest, dir, called, rehashed,
                                  behaviour, outcome)
                      ELSE LET after == AddSubscriber(dir, effect.object_id,
                                                      effect.callback)
                           IN  IF effect.object_id = object_id
                               THEN CASE outcome.insert = "rehash" -> Invalidated(after)
                                      [] outcome.insert = "before" ->
                                             FanOut(object_id, rest, after, called,
                                                    rehashed, behaviour, outcome)
                                      [] OTHER ->
                                             FanOut(object_id,
                                                    Append(rest, effect.callback),
                                                    after, called, rehashed,
                                                    behaviour, outcome)
                               ELSE FanOut(object_id, rest, after, called,
                                           rehashed \/ (effect.object_id \notin DOMAIN dir
                                                           /\ outcome.insert = "rehash"),
                                           behaviour, outcome)
               [] OTHER -> FanOut(object_id, rest, dir, called, rehashed,
                                  behaviour, outcome)

\* The loop of lines 111-130 over listeners_ when callbacks call back into the
\* directory: the objects are visited in the sequence order[i..], the callbacks
\* of an object in the sequence callback_order. A rehash of listeners_ during a
\* fan-out invalidates the iterator of this loop.
RECURSIVE VisitListenersReentrant(_, _, _, _, _, _, _, _)
VisitListenersReentrant(node_id, order, i, dir, calls, callback_order, behaviour, outcome) ==
    IF i > Len(order)
    THEN [listeners |-> dir, calls |-> calls, aborted |-> FALSE]
    ELSE LET object_id == order[i]
         IN  IF node_id \notin dir[object_id].current_object_locations
             THEN VisitListenersReentrant(node_id, order, i + 1, dir, calls,
                                          callback_order, behaviour, outcome)
             ELSE LET r == UpdateObjectLocations(<<>>, removed, dir[object_id])
                      swept == [dir EXCEPT ![object_id] = r.st]
                      pending == SelectSeq(callback_order,
                                     LAMBDA c : c \in swept[object_id].callbacks)
                      f == FanOut(object_id, pending, swept, calls, FALSE,
                                  behaviour, outcome)
                  IN  IF f.aborted \/ (f.rehashed /\ outcome.ub = "crash")
                      THEN [listeners |-> f.listeners, calls |-> f.calls,
                            aborted |-> TRUE]
                      ELSE IF f.rehashed /\ outcome.ub = "stop"
                      THEN [listeners |-> f.listeners, calls |-> f.calls,
                            aborted |-> FALSE]
                      ELSE IF f.rehashed /\ outcome.ub = "revisit"
                      THEN VisitListenersReentrant(node_id,
                               SeqOf(DOMAIN f.listeners), 1, f.listeners, f.calls,
                               callback_order, behaviour, outcome)
                      ELSE VisitListenersReentrant(node_id, order, i + 1,
                               f.listeners, f.calls, callback_order, behaviour,
                               outcome)

\* ObjectDirectory::HandleNodeRemoved(node_id) with callbacks that call back
\* into the directory.
HandleNodeRemovedReentrant(node_id, order, callback_order, behaviour, outcome) ==
    /\ Ready
    /\ LET r == VisitListenersReentrant(node_id, order, 1, listeners, NoCalls,
                                        callback_order, behaviour, outcome)
       IN  /\ listeners' = r.listeners
           /\ crashed' = r.aborted
           /\ last' = Record("node_removed", Nil, node_id, <<>>, FALSE, r.calls)
    /\ handled' = IF IsRemoved(removed, node_id) THEN handled \cup {node_id} ELSE handled
    /\ UNCHANGED <<removed, node_map>>

\* --------------------------------------------------- remote connections
\* RemoteConnectionInfo(node_id): the address and the port start empty.
RemoteConnectionInfo(node_id) == [node_id |-> node_id, ip |-> <<>>, port |-> 0]

\* RemoteConnectionInfo::Connected(): address and port are both populated.
Connected(info) == ~empty(info.ip) /\ info.port # 0

\* ObjectDirectory::LookupRemoteConnectionInfo (lines 86-95): the info filled
\* in from the node's entry, if there is one, and whether the RAY_CHECK failed.
LookupRemoteConnectionInfo(connection_info, table) ==
    IF connection_info.node_id \notin DOMAIN table
    THEN [info |-> connection_info, aborted |-> FALSE]
    ELSE LET node_info == table[connection_info.node_id]
         IN  IF FromBinary(node_info.node_id) # connection_info.node_id
             THEN [info |-> connection_info, aborted |-> TRUE]
             ELSE [info |-> [connection_info EXCEPT
                                 !.ip = node_info.node_manager_address,
                                 !.port = node_info.object_manager_port % PortModulus],
                   aborted |-> FALSE]

\* The loop that keeps every connected node, the local one too.
RECURSIVE CollectIncludingSelf(_, _, _, _)
CollectIncludingSelf(table, order, i, remote_connections) ==
    IF i > Len(order)
    THEN [remote_connections |-> remote_connections, aborted |-> FALSE]
    ELSE LET r == LookupRemoteConnectionInfo(RemoteConnectionInfo(order[i]), table)
         IN  IF r.aborted
             THEN [remote_connections |-> remote_connections, aborted |-> TRUE]
             ELSE CollectIncludingSelf(table, order, i + 1,
                      IF Connected(r.info)
                      THEN Append(remote_connections, r.info)
                      ELSE remote_connections)

\* The loop of lines 100-106 over node_map, visited in the sequence order[i..].
RECURSIVE CollectRemoteConnections(_, _, _, _)
CollectRemoteConnections(table, order, i, remote_connections) ==
    IF i > Len(order)
    THEN [remote_connections |-> remote_connections, aborted |-> FALSE]
    ELSE LET r == LookupRemoteConnectionInfo(RemoteConnectionInfo(order[i]), table)
         IN  IF r.aborted
             THEN [remote_connections |-> remote_connections, aborted |-> TRUE]
             ELSE CollectRemoteConnections(table, order, i + 1,
                      IF Connected(r.info) /\ r.info.node_id # SelfId
                      THEN Append(remote_connections, r.info)
                      ELSE remote_connections)

\* The control plane registers a node, or updates the entry it has for it.
NodeAddedOrUpdated(node_id, node_info) ==
    /\ Ready
    /\ node_map' = [n \in DOMAIN node_map \cup {node_id} |->
                        IF n = node_id THEN node_info ELSE node_map[n]]
    /\ UNCHANGED <<listeners, removed, crashed, last, handled>>

\* ObjectDirectory::LookupAllRemoteConnections()
LookupAllRemoteConnections(order) ==
    /\ Ready
    /\ LET r == CollectRemoteConnections(node_map, order, 1, <<>>)
       IN  /\ crashed' = r.aborted
           /\ last' = [op |-> IF r.aborted THEN "resolve_abort" ELSE "resolve_all",
                       remote_connections |-> r.remote_connections]
    /\ UNCHANGED <<listeners, removed, handled, node_map>>

\* ---------------------------------------------------------- specifications
\* The directory with all its objects; each notification carries at most one update.
Init == InitOf(Objects)

Next ==
    \/ ReturnToLoop
    \/ Ready /\ \E node_id \in Nodes : NodeDeclaredRemoved(node_id)
    \/ Ready /\ \E object_id \in Objects, location_updates \in Notifications :
                    OnLocationUpdate(object_id, location_updates)
    \/ Ready /\ \E node_id \in Nodes, order \in IterationOrders(Objects) :
                    HandleNodeRemoved(node_id, order)

Spec == Init /\ [][Next]_vars

\* The merge of whole batches into one object.
MergedObjects == {"X"}

InitMerge == InitOf(MergedObjects)

NextMerge ==
    \/ ReturnToLoop
    \/ Ready /\ \E node_id \in Nodes : NodeDeclaredRemoved(node_id)
    \/ Ready /\ \E object_id \in MergedObjects, location_updates \in Batches :
                    OnLocationUpdate(object_id, location_updates)

SpecMerge == InitMerge /\ [][NextMerge]_vars

\* Node removals whose callbacks call back into the directory.
NextReentrant ==
    \/ ReturnToLoop
    \/ Ready /\ \E node_id \in Nodes : NodeDeclaredRemoved(node_id)
    \/ Ready /\ \E object_id \in MergedObjects, update \in AddEvents :
                    /\ update.size = 0
                    /\ OnLocationUpdate(object_id, <<update>>)
    \/ Ready /\ \E node_id \in Nodes, order \in IterationOrders(DOMAIN listeners),
                    callback_order \in IterationOrders(Subscribers),
                    behaviour \in Behaviours, outcome \in Outcomes :
                    HandleNodeRemovedReentrant(node_id, order, callback_order,
                                               behaviour, outcome)

SpecReentrant == InitMerge /\ [][NextReentrant]_vars

\* The resolution of remote connections against a changing node table.
NextResolve ==
    \/ ReturnToLoop
    \/ Ready /\ \E node_id \in KnownNodes, node_info \in GcsNodeInfo :
                    NodeAddedOrUpdated(node_id, node_info)
    \/ Ready /\ \E order \in IterationOrders(DOMAIN node_map) :
                    LookupAllRemoteConnections(order)

SpecResolve == Init /\ [][NextResolve]_vars

\* ------------------------------------------------------------ observations
\* The object the last on_location_update was for.
Target == last.object_id

\* What a callback is told of a listener state.
Snapshot(st) ==
    [locations |-> st.current_object_locations, spilled_url |-> st.spilled_url,
     spilled_node_id |-> st.spilled_node_id, object_size |-> st.object_size]

\* What a call told its callback.
Told(call) ==
    [locations |-> call.locations, spilled_url |-> call.spilled_url,
     spilled_node_id |-> call.spilled_node_id, object_size |-> call.object_size]

\* The location state of an object: its locations and its spill.
LocationState(st) ==
    <<st.current_object_locations, st.spilled_url, st.spilled_node_id>>

\* The calls the last handler made for an object, and how many for one callback.
CallsFor(object_id) == {call \in BagToSet(last.calls) : call.object_id = object_id}

NumCalls(object_id, callback) ==
    LET mine == {call \in CallsFor(object_id) : call.callback = callback}
    IN  BagCardinality([call \in mine |-> CopiesIn(call, last.calls)])

\* The objects whose locations held the node of the last on_node_removed.
Affected(object_id) ==
    last.node_id \in last.before[object_id].current_object_locations

\* An update that names no node and carries no URL, and an update that adds.
IsMalformed(update) == empty(update.node_id) /\ empty(update.spilled_url)

IsAdd(update) == ~empty(update.node_id) /\ update.is_add

\* An update that deletes a node, and an update that records a spill.
IsRemove(update) == ~empty(update.node_id) /\ ~update.is_add

IsSpilled(update) == empty(update.node_id) /\ ~empty(update.spilled_url)

\* ------------------------------------------------------------------ claims
\* C1: after a merge that returns normally, the object's locations hold no node
\* the oracle reports as removed at the time of the call, whatever the state
\* before, the batch and the oracle (the merges of on_node_removed included).
C1_NoRemovedLocation ==
    \A object_id \in DOMAIN listeners :
        (\/ last.op = "update" /\ object_id = Target
         \/ last.op = "node_removed" /\ Affected(object_id)) =>
            \A node_id \in listeners[object_id].current_object_locations :
                ~IsRemoved(removed, node_id)

\* A merge ran on locations that held a removed node, with a batch that ends by
\* adding a node already removed.
C1_Witness ==
    /\ last.op = "update"
    /\ \E node_id \in last.before[Target].current_object_locations :
           IsRemoved(removed, node_id)
    /\ last.location_updates # <<>>
    /\ LET update == last.location_updates[Len(last.location_updates)]
       IN  IsAdd(update) /\ IsRemoved(removed, FromBinary(update.node_id))

\* C2: self-healing: a merge on locations that hold a node the oracle reports as
\* removed leaves that node out and returns changed = true, for any batch.
C2_SelfHealing ==
    last.op = "update" =>
        \A node_id \in last.before[Target].current_object_locations :
            IsRemoved(removed, node_id) =>
                /\ node_id \notin listeners[Target].current_object_locations
                /\ last.isUpdated

\* Each registered callback of each affected object was called exactly once,
\* and no callback of any other object.
FanOutExact ==
    \A object_id \in DOMAIN listeners :
        /\ \A call \in CallsFor(object_id) :
               call.callback \in last.before[object_id].callbacks
        /\ \A callback \in last.before[object_id].callbacks :
               NumCalls(object_id, callback) = (IF Affected(object_id) THEN 1 ELSE 0)

EveryCallReportsChange ==
    \A call \in BagToSet(last.calls) :
        Told(call) # Snapshot(last.before[call.object_id])

C5_NoOpSuppression ==
    last.op = "update" =>
        /\ last.calls # NoCalls => last.isUpdated
        /\ listeners[Target] = last.before[Target] => last.calls = NoCalls
        /\ EveryCallReportsChange

\* C6: no lost notification: when on_location_update or on_node_removed changes
\* the location state of an object, every callback registered for the object is
\* called in that handler with the state after it.
C6_NoLostNotification ==
    last.op \in {"update", "node_removed"} =>
        \A object_id \in DOMAIN listeners :
            LocationState(listeners[object_id]) # LocationState(last.before[object_id]) =>
                \A callback \in listeners[object_id].callbacks :
                    \E call \in CallsFor(object_id) :
                        /\ call.callback = callback
                        /\ Told(call) = Snapshot(listeners[object_id])

\* C7: once the oracle reports node n as removed and on_node_removed(n) has been
\* processed, no tracked object's locations hold n after any later handler,
\* whatever additions and removals of n are delivered before or after.
C7_Convergence ==
    \A node_id \in handled :
        \A object_id \in DOMAIN listeners :
            node_id \notin listeners[object_id].current_object_locations

\* An addition of n was delivered after on_node_removed(n) had been processed,
\* and the merge counted it as a change.
C7_Witness ==
    /\ last.op = "update"
    /\ \E node_id \in handled :
           /\ last.location_updates # <<>>
           /\ IsAdd(last.location_updates[1])
           /\ FromBinary(last.location_updates[1].node_id) = node_id
           /\ last.isUpdated

\* C8: the size is monotonic once set: no handler resets a positive object_size
\* to 0, and a batch whose updates all carry size 0 leaves object_size as it was.
C8_MonotonicSize ==
    /\ last.op # "idle" =>
           \A object_id \in DOMAIN listeners :
               last.before[object_id].object_size > 0 =>
                   listeners[object_id].object_size > 0
    /\ last.op \in {"update", "abort"} =>
           ((\A i \in DOMAIN last.location_updates : last.location_updates[i].size = 0)
                => listeners[Target].object_size = last.before[Target].object_size)

\* A batch that sets a size and then adds another node with size 0 was merged
\* into an object whose size was known.
C8_Witness ==
    /\ last.op = "update"
    /\ last.before[Target].object_size > 0
    /\ Len(last.location_updates) = 2
    /\ IsAdd(last.location_updates[1])
    /\ last.location_updates[1].size > 0
    /\ IsAdd(last.location_updates[2])
    /\ last.location_updates[2].size = 0
    /\ last.isUpdated

\* C9: a batch with an update that names no node and carries an empty spilled URL
\* makes the merge abort; a merge that returns normally had no such update.
C9_EmptySpillAborts ==
    /\ last.op = "update" =>
           \A i \in DOMAIN last.location_updates : ~IsMalformed(last.location_updates[i])
    /\ last.op \in {"update", "abort"} =>
           ((\E i \in DOMAIN last.location_updates : IsMalformed(last.location_updates[i]))
                <=> (last.op = "abort" /\ crashed))

\* A merge aborted on a malformed update that came after a well-formed one.
C9_Witness ==
    /\ last.op = "abort"
    /\ crashed
    /\ Len(last.location_updates) = 2
    /\ ~IsMalformed(last.location_updates[1])
    /\ IsMalformed(last.location_updates[2])

\* C10: add idempotence: with the oracle unchanged, merging the same Add(node,
\* size) a second time leaves the locations as the first merge left them and
\* returns changed = false.
C10_AddIdempotent ==
    (last.op = "update" /\ Len(last.location_updates) = 1
                        /\ IsAdd(last.location_updates[1])) =>
        LET second == UpdateObjectLocations(last.location_updates, removed,
                                            listeners[Target])
        IN  /\ second.st.current_object_locations
                   = listeners[Target].current_object_locations
            /\ ~second.isUpdated

\* The spill an object has: its URL and the node that spilled it.
Spill(st) == <<st.spilled_url, st.spilled_node_id>>

\* C11: spill idempotence and overwrite: a Spilled(url, node) whose url equals
\* the current spilled_url changes neither spilled_url nor spilled_node_id and
\* contributes changed = false, even when its node differs from the stored one
\* (also as the second of two Spilled events of one batch); a Spilled whose url
\* differs overwrites both and the merge returns changed = true.
C11_SpillIdempotent ==
    /\ (last.op = "update" /\ Len(last.location_updates) = 1
                           /\ IsSpilled(last.location_updates[1])) =>
           LET update == last.location_updates[1]
               before == last.before[Target]
           IN  IF update.spilled_url = before.spilled_url
               THEN Spill(listeners[Target]) = Spill(before) /\ ~last.isUpdated
               ELSE /\ Spill(listeners[Target]) =
                           <<update.spilled_url, FromBinary(update.spilled_node_id)>>
                    /\ last.isUpdated
    /\ (last.op = "update" /\ Len(last.location_updates) = 2
                           /\ IsSpilled(last.location_updates[1])
                           /\ IsSpilled(last.location_updates[2])
                           /\ last.location_updates[1].spilled_url
                                  = last.location_updates[2].spilled_url) =>
           LET first == last.location_updates[1]
               before == last.before[Target]
           IN  IF first.spilled_url = before.spilled_url
               THEN Spill(listeners[Target]) = Spill(before) /\ ~last.isUpdated
               ELSE /\ Spill(listeners[Target]) =
                           <<first.spilled_url, FromBinary(first.spilled_node_id)>>
                    /\ last.isUpdated

\* A Spilled event with the URL the object already had, but another node, was
\* merged on its own; the object keeps the node it had.
C11_Witness ==
    /\ last.op = "update"
    /\ Len(last.location_updates) = 1
    /\ IsSpilled(last.location_updates[1])
    /\ last.location_updates[1].spilled_url = last.before[Target].spilled_url
    /\ FromBinary(last.location_updates[1].spilled_node_id)
           # last.before[Target].spilled_node_id
    /\ ~last.isUpdated

\* The size an object has after an Add that carries size s.
SizeAfterAdd(update, st) == IF update.size > 0 THEN update.size ELSE st.object_size

\* C12: symmetry: Add(n, s) followed by Remove(n) (a deletion that carries no
\* size), applied to an object with empty locations in one batch or in two
\* consecutive merges, yields locations = {} while object_size keeps the value
\* the Add set.
C12_AddRemoveSymmetry ==
    /\ (last.op = "update" /\ last.before[Target].current_object_locations = {}
                           /\ Len(last.location_updates) = 2
                           /\ IsAdd(last.location_updates[1])
                           /\ IsRemove(last.location_updates[2])
                           /\ last.location_updates[2].size = 0
                           /\ last.location_updates[1].node_id
                                  = last.location_updates[2].node_id) =>
           /\ listeners[Target].current_object_locations = {}
           /\ listeners[Target].object_size =
                  SizeAfterAdd(last.location_updates[1], last.before[Target])
    /\ (last.op = "update" /\ last.before[Target].current_object_locations = {}
                           /\ Len(last.location_updates) = 1
                           /\ IsAdd(last.location_updates[1])) =>
           \A update \in RemoveEvents :
               (update.node_id = last.location_updates[1].node_id /\ update.size = 0) =>
                   LET second == UpdateObjectLocations(<<update>>, removed,
                                                       listeners[Target])
                   IN  /\ ~second.aborted
                       /\ second.st.current_object_locations = {}
                       /\ second.st.object_size =
                              SizeAfterAdd(last.location_updates[1], last.before[Target])

\* The batch [Add(n, s), Remove(n)] with a positive s, for a node that is not
\* removed, was merged into an object without locations and without a size.
C12_Witness ==
    /\ last.op = "update"
    /\ last.before[Target].current_object_locations = {}
    /\ last.before[Target].object_size = 0
    /\ Len(last.location_updates) = 2
    /\ IsAdd(last.location_updates[1])
    /\ last.location_updates[1].size > 0
    /\ ~IsRemoved(removed, FromBinary(last.location_updates[1].node_id))
    /\ IsRemove(last.location_updates[2])
    /\ last.location_updates[2].size = 0
    /\ last.location_updates[1].node_id = last.location_updates[2].node_id
    /\ listeners[Target].object_size > 0

\* C13: in every reachable state, spilled_node_id is set only if spilled_url is
\* non-empty, and no handler (merge or node removal, returning or aborting)
\* makes a non-empty spilled_url empty again.
C13_SpillIntegrity ==
    /\ \A object_id \in DOMAIN listeners :
           empty(listeners[object_id].spilled_url) =>
               listeners[object_id].spilled_node_id = Nil
    /\ last.op # "idle" =>
           \A object_id \in DOMAIN listeners :
               ~empty(last.before[object_id].spilled_url) =>
                   ~empty(listeners[object_id].spilled_url)

\* An update with an empty URL that names a spilling node was delivered, to an
\* object that is not spilled while another object is.
C13_Witness ==
    /\ last.op = "abort"
    /\ ~empty(last.location_updates[1].spilled_node_id)
    /\ empty(last.before[Target].spilled_url)
    /\ \E object_id \in DOMAIN listeners : ~empty(listeners[object_id].spilled_url)

\* The connection a node resolves to: its address and its port as a uint16_t.
Resolved(node_id) ==
    [node_id |-> node_id, ip |-> node_map[node_id].node_manager_address,
     port |-> node_map[node_id].object_manager_port % PortModulus]

\* C14: connection filtering: the result of resolve_all() has no entry for the
\* local node and no entry whose address or port is empty, and it has, once,
\* every other node the oracle knows that resolves to a populated address and
\* port, with that address and port.
C14_ConnectionFiltering ==
    last.op = "resolve_all" =>
        LET result == last.remote_connections
        IN  /\ \A i \in DOMAIN result :
                   /\ result[i].node_id \in DOMAIN node_map
                   /\ result[i] = Resolved(result[i].node_id)
                   /\ result[i].node_id # SelfId
                   /\ ~empty(result[i].ip)
                   /\ result[i].port # 0
            /\ \A i, j \in DOMAIN result :
                   result[i].node_id = result[j].node_id => i = j
            /\ \A node_id \in DOMAIN node_map \ {SelfId} :
                   (~empty(Resolved(node_id).ip) /\ Resolved(node_id).port # 0) =>
                       \E i \in DOMAIN result : result[i] = Resolved(node_id)

\* resolve_all() returned one connection from a table that holds the local node
\* with a populated entry, a node whose port is a multiple of 2^16 and a node
\* with a populated address and port.
C14_Witness ==
    /\ last.op = "resolve_all"
    /\ DOMAIN node_map = KnownNodes
    /\ Connected(Resolved(SelfId))
    /\ \E node_id \in Nodes :
           /\ ~empty(node_map[node_id].node_manager_address)
           /\ node_map[node_id].object_manager_port = PortModulus
    /\ Len(last.remote_connections) = 1

\* C15: on_node_removed(node_id) leaves every tracked object whose locations did
\* not hold node_id as it was (locations, spill, size, callbacks) and calls none
\* of its callbacks, also when the object holds other nodes the oracle reports
\* as removed; when no tracked object holds node_id nothing changes, no callback
\* is called and the process does not abort.
C15_NodeRemovedFrame ==
    last.op = "node_removed" =>
        /\ \A object_id \in DOMAIN listeners :
               ~Affected(object_id) =>
                   /\ listeners[object_id] = last.before[object_id]
                   /\ CallsFor(object_id) = {}
        /\ (\A object_id \in DOMAIN listeners : ~Affected(object_id)) =>
               /\ listeners = last.before
               /\ last.calls = NoCalls
               /\ ~crashed

\* on_node_removed(n) swept one object while another, which did not hold n, held
\* a different node that the oracle reports as removed.
C15_Witness ==
    /\ last.op = "node_removed"
    /\ \E x, y \in DOMAIN listeners :
           /\ Affected(x)
           /\ ~Affected(y)
           /\ \E node_id \in last.before[y].current_object_locations :
                  IsRemoved(removed, node_id)

\* C16: the fan-out is over a stable snapshot of the subscriber set: when a
\* callback called during the fan-out for an object adds or removes subscribers
\* of that object (itself included) or subscribes to another object, the
\* callbacks called for the object are exactly those registered when the fan-out
\* began, each once, and the iteration over the tracked objects is not corrupted.
C16_StableFanOut ==
    last.op = "node_removed" =>
        /\ ~crashed
        /\ \A object_id \in DOMAIN last.before :
               \A callback \in Subscribers :
                   NumCalls(object_id, callback) =
                       (IF Affected(object_id)
                           /\ callback \in last.before[object_id].callbacks
                        THEN 1 ELSE 0)

\* The updates of the last batch that carry a positive size.
Sized == {i \in DOMAIN last.location_updates : last.location_updates[i].size > 0}

\* The last batch holds no addition: it is empty or made of Remove and Spilled.
NoAddition == \A i \in DOMAIN last.location_updates : ~IsAdd(last.location_updates[i])

RECURSIVE MergeOneByOne(_, _, _, _)
MergeOneByOne(location_updates, i, oracle, st) ==
    IF i > Len(location_updates)
    THEN st
    ELSE MergeOneByOne(location_updates, i + 1, oracle,
             UpdateObjectLocations(<<location_updates[i]>>, oracle, st).st)

\* The positions of the last batch whose update adds or deletes the node.
Naming(node_id) ==
    {i \in DOMAIN last.location_updates :
        /\ ~empty(last.location_updates[i].node_id)
        /\ FromBinary(last.location_updates[i].node_id) = node_id}

\* C18: batches are applied in array order: with the oracle fixed, merging
\* [e1, ..., ek] (k >= 1) in one call leaves the object as merging [e1], ...,
\* [ek] one after the other does, and the last update that names a node decides
\* whether the object holds it: it does exactly when that update is an Add and
\* the node is not removed.
C18_BatchInOrder ==
    (last.op = "update" /\ Len(last.location_updates) >= 1) =>
        /\ listeners[Target] =
               MergeOneByOne(last.location_updates, 1, removed, last.before[Target])
        /\ \A node_id \in Nodes :
               Naming(node_id) # {} =>
                   LET k == CHOOSE i \in Naming(node_id) :
                                \A j \in Naming(node_id) : j <= i
                   IN  node_id \in listeners[Target].current_object_locations
                           <=> /\ last.location_updates[k].is_add
                               /\ ~IsRemoved(removed, node_id)

\* The batch [Remove(n), Add(n)] was merged into an object that held n, and the
\* object still holds n.
C18_Witness ==
    /\ last.op = "update"
    /\ Len(last.location_updates) = 2
    /\ IsRemove(last.location_updates[1])
    /\ IsAdd(last.location_updates[2])
    /\ last.location_updates[1].node_id = last.location_updates[2].node_id
    /\ FromBinary(last.location_updates[1].node_id)
           \in last.before[Target].current_object_locations
    /\ FromBinary(last.location_updates[1].node_id)
           \in listeners[Target].current_object_locations

\* C19: on_node_removed changes no object's spilled_url, spilled_node_id or
\* object_size and adds no node to any locations: every object's locations
\* after the call are a subset of those before, and the spill and the size
\* passed to the callbacks are those the object had before the call.
C19_NodeRemovedKeepsSpillAndSize ==
    last.op = "node_removed" =>
        /\ \A object_id \in DOMAIN listeners :
               /\ Spill(listeners[object_id]) = Spill(last.before[object_id])
               /\ listeners[object_id].object_size = last.before[object_id].object_size
               /\ listeners[object_id].current_object_locations
                      \subseteq last.before[object_id].current_object_locations
        /\ \A call \in BagToSet(last.calls) :
               /\ call.spilled_url = last.before[call.object_id].spilled_url
               /\ call.spilled_node_id = last.before[call.object_id].spilled_node_id
               /\ call.object_size = last.before[call.object_id].object_size
               /\ call.locations
                      \subseteq last.before[call.object_id].current_object_locations

\* on_node_removed swept a removed node out of a spilled object of known size
\* that keeps another location, and called its callbacks.
C19_Witness ==
    /\ last.op = "node_removed"
    /\ \E call \in BagToSet(last.calls) :
           /\ ~empty(call.spilled_url)
           /\ call.object_size > 0
           /\ call.locations # {}
           /\ call.locations # last.before[call.object_id].current_object_locations

\* C20 as stated: when on_node_removed(n) calls a callback, with the oracle
\* reporting n as removed, no tracked object's locations hold n: a read of any
\* other object from inside the callback does not see n (all affected objects
\* are swept before the first callback runs).
C20_ConsistentAtCallbackAsStated ==
    (last.op = "node_removed" /\ IsRemoved(removed, last.node_id)) =>
        \A call \in BagToSet(last.calls) :
            \A object_id \in DOMAIN call.dir :
                last.node_id \notin call.dir[object_id]

\* C20 amended: when on_node_removed(n) calls a callback of an object, with the
\* oracle reporting n as removed, that object has been swept: its locations are
\* those passed to the callback and do not hold n. Every other object is either
\* swept already, holding its final locations, or not visited yet, holding the
\* locations it had before the call, n among them if it held n; when the call
\* returns no tracked object holds n.
C20_SweptBeforeOwnCallbacks ==
    (last.op = "node_removed" /\ IsRemoved(removed, last.node_id)) =>
        /\ \A call \in BagToSet(last.calls) :
               /\ call.dir[call.object_id] = call.locations
               /\ last.node_id \notin call.dir[call.object_id]
               /\ \A object_id \in DOMAIN call.dir :
                      \/ call.dir[object_id]
                             = listeners[object_id].current_object_locations
                      \/ call.dir[object_id]
                             = last.before[object_id].current_object_locations
        /\ \A object_id \in DOMAIN listeners :
               last.node_id \notin listeners[object_id].current_object_locations

\* on_node_removed(n), with n reported removed, called a callback of one object
\* while another object still held n.
C20_Witness ==
    /\ last.op = "node_removed"
    /\ IsRemoved(removed, last.node_id)
    /\ \E call \in BagToSet(last.calls) :
           \E object_id \in DOMAIN call.dir :
               /\ object_id # call.object_id
               /\ last.node_id \in call.dir[object_id]

====
